---------------------------- MODULE Spec2Model ----------------------------
(***************************************************************************)
(* A model of gocsi: the process-wide provider registry guarded by a       *)
(* sync.Once (Init / loadSharedObjects), the endpoint factory (New), the   *)
(* in-memory listener/dialer pipeConn (Dial / Accept / Close) and the      *)
(* forwarding endpoint (Serve / Shutdown / the RPC methods).               *)
(***************************************************************************)
EXTENDS Integers, Sequences, FiniteSets, TLC

(***************************************************************************)
(* Bounds of the model.                                                    *)
(***************************************************************************)
\* the longest CSI_PLUGINS list the registry is started with
MaxModules == 2
\* the number of Init / New calls the host goroutines issue in all
MaxCalls == 2
\* the number of net.Pipe() pairs made, one for each Dial
MaxDials == 3
\* the number of Accept calls made
MaxAccepts == 3
\* the number of calls of the endpoint's RPC methods
MaxRpcs == 2
\* the longest text after the separator in an address given to the parser
MaxRest == 2

\* the host goroutines that call the package
Threads == {"t1", "t2"}
\* the goroutines running a plug-in's Serve, one for each endpoint served
Servers == {"srv1", "srv2"}
Accepters == Threads \cup Servers

(***************************************************************************)
(* Values.                                                                 *)
(***************************************************************************)
Nil == "nil"

\* an error value; NoErr is Go's nil error
Err(kind, arg) == [kind |-> kind, arg |-> arg]
NoErr == Err("nil", "")

\* provider names are strings, kept as sequences of characters
mock == <<"m", "o", "c", "k">>
Mock == <<"M", "o", "c", "k">>
MOCK == <<"M", "O", "C", "K">>
xkey == <<"x">>
doesnotexist == <<"n", "o">>
NoName == <<>>

\* the names a host asks New for
RequestNames == {mock, MOCK, doesnotexist}

\* simple case folding of one character, as strings.EqualFold folds ASCII
FoldChar(c) ==
    CASE c = "M" -> "m"
      [] c = "O" -> "o"
      [] c = "C" -> "c"
      [] c = "K" -> "k"
      [] c = "X" -> "x"
      [] c = "N" -> "n"
      [] OTHER -> c

\* strings.EqualFold(s, t)
EqualFold(s, t) ==
    /\ Len(s) = Len(t)
    /\ \A i \in 1..Len(s) : FoldChar(s[i]) = FoldChar(t[i])

(***************************************************************************)
(* Go plug-ins: what plugin.Open and Lookup("Endpoints") yield for each    *)
(* shared object file the environment may name.                            *)
(*   open : whether plugin.Open succeeds                                   *)
(*   sym  : "ok" (a *map[string]func() interface{}), "missing" (Lookup     *)
(*          fails), "badtype" (another type), "nilptr" (a nil pointer)     *)
(*   eps  : the exported map, a set of <<name, constructor>> pairs         *)
(***************************************************************************)
SharedObjects == {"a.so", "b.so", "c.so", "noopen.so", "nosym.so", "badsym.so", "nil.so"}

PluginFile(so) ==
    CASE so = "a.so" -> [open |-> TRUE, sym |-> "ok",
                         eps |-> {<<mock, "a.mock">>, <<xkey, "a.x">>}]
      [] so = "b.so" -> [open |-> TRUE, sym |-> "ok",
                         eps |-> {<<mock, "b.mock">>, <<Mock, "b.Mock">>}]
      [] so = "c.so" -> [open |-> TRUE, sym |-> "ok",
                         eps |-> {<<xkey, "c.x">>}]
      [] so = "noopen.so" -> [open |-> FALSE, sym |-> "ok", eps |-> {}]
      [] so = "nosym.so" -> [open |-> TRUE, sym |-> "missing", eps |-> {}]
      [] so = "badsym.so" -> [open |-> TRUE, sym |-> "badtype", eps |-> {}]
      [] OTHER -> [open |-> TRUE, sym |-> "nilptr", eps |-> {}]

\* the concrete type of the value a constructor returns (%T of it)
TypeOf(ctor) ==
    CASE ctor = "a.mock" -> "*a.endpoint"
      [] ctor = "a.x" -> "*a.endpoint"
      [] ctor = "b.mock" -> "*b.endpoint"
      [] ctor = "b.Mock" -> "*b.legacy"
      [] OTHER -> "*c.config"

\* whether a value of that type has Init, Serve and Shutdown: o.(Endpoint)
IsEndpoint(type) == type \in {"*a.endpoint", "*b.endpoint"}

\* every sequence of distinct elements of S of a length up to n
SeqsUpTo(S, n) ==
    {s \in UNION {[1..k -> S] : k \in 0..n} :
        \A i, j \in DOMAIN s : i # j => s[i] # s[j]}

\* the values of CSI_PLUGINS: a CSV record of paths, each file named once,
\* or text that does not parse
Environments ==
    {[parse |-> TRUE, sos |-> s] : s \in SeqsUpTo(SharedObjects, MaxModules)}
        \cup {[parse |-> FALSE, sos |-> <<>>]}

(***************************************************************************)
(* State.                                                                  *)
(***************************************************************************)
VARIABLES
    csiPlugins,     \* os.Getenv("CSI_PLUGINS"), read by loadSharedObjects
    endpointCtors,  \* the package map, a set of <<name, constructor>> pairs
    onceDone,       \* initOnce: the done flag
    onceM,          \* initOnce: the goroutine holding its mutex, or Nil
    pc,             \* each goroutine's position
    op,             \* each goroutine's current call: [kind, name]
    err,            \* each goroutine's local err of Init
    so,             \* each goroutine's position in the loop over sos
    ncalls,         \* the calls the host has issued
    loadRuns,       \* the executions of loadSharedObjects started
    loadEnds,       \* the executions of loadSharedObjects finished
    loadErr,        \* what each finished execution returned
    rets,           \* the outcomes of the calls that returned, see Ret
    facades,        \* the endpoint values New built: [name, endp, conn]
    conns,          \* the pipeConn values newPipeConn built: [addr, closed, pend]
    npipes,         \* the net.Pipe() pairs made
    acc,            \* the Accept each goroutine is blocked in, or NotAccepting
    nacc,           \* the Accept calls made
    dials,          \* the Dial calls that returned, see Dial
    accepts,        \* the Accept calls that returned, see Accepted
    panicked,       \* NoPanic, or the panic that ended the process
    plug,           \* the value each endpoint wraps: the calls its Endpoint methods got
    host,           \* each host goroutine's call of an endpoint method
    srvConns,       \* the streams each plug-in server accepted: <<endpoint, end>>
    requests,       \* the requests written to a stream: [pipe, group, method, req]
    responses,      \* the responses written to a stream: [pipe, resp, err]
    invoked,        \* the plug-in methods invoked: [pipe, fac, method, req, k]
    frets,          \* the endpoint methods that returned, see ForwardReturn
    shuts,          \* the endpoint.Shutdown calls that returned, see ShutdownClose
    protoAddr,      \* the string given to the address parser
    parsed,         \* what the two parsers returned for it: [fn, proto, addr, err]
    csiEndpoint,    \* os.Getenv("CSI_ENDPOINT") of the mock's process, <<>> if unset
    mpc,            \* the position of the mock's main
    listenArgs,     \* main's proto and addr
    steps,          \* the steps main attempted: "listen", "Init", "Serve"
    stderr,         \* what main wrote to os.Stderr
    exitCode        \* <<>>, or the status os.Exit was called with

regVars == <<csiPlugins, endpointCtors, onceDone, onceM, pc, op, err, so,
             ncalls, loadRuns, loadEnds, loadErr, rets>>
objVars == <<facades, conns, plug>>
brVars == <<npipes, acc, nacc, dials, accepts, panicked>>
fcVars == <<host, srvConns, requests, responses, invoked, frets, shuts>>
netVars == <<brVars, fcVars>>
cliVars == <<protoAddr, parsed, csiEndpoint, mpc, listenArgs, steps, stderr, exitCode>>
vars == <<regVars, objVars, netVars, cliVars>>

\* no pipe made, no goroutine in Accept, no panic
NotAccepting == [on |-> 0, n |-> 0, open |-> FALSE]
NoPanic == [why |-> "none", on |-> 0, conn |-> [pipe |-> 0, end |-> "nil"]]
NoPlug == [init |-> 0, serve |-> "no", li |-> 0, shut |-> 0, closed |-> 0]
HostIdle == [pc |-> "idle", fac |-> 0, method |-> "", req |-> "", pipe |-> 0,
             after |-> FALSE, perr |-> [kind |-> "nil", arg |-> ""]]
NoTraffic ==
    /\ host = [t \in Threads |-> HostIdle]
    /\ srvConns = {}
    /\ requests = {}
    /\ responses = {}
    /\ invoked = {}
    /\ frets = {}
    /\ shuts = {}
    /\ npipes = 0
    /\ acc = [a \in Accepters |-> NotAccepting]
    /\ nacc = 0
    /\ dials = {}
    /\ accepts = {}
    /\ panicked = NoPanic

\* no command-line program of the repository is running
NoCommand ==
    /\ protoAddr = <<>>
    /\ parsed = {}
    /\ csiEndpoint = <<>>
    /\ mpc = "none"
    /\ listenArgs = <<>>
    /\ steps = <<>>
    /\ stderr = <<>>
    /\ exitCode = <<>>

(***************************************************************************)
(* The map endpointCtors.                                                  *)
(***************************************************************************)
Keys(m) == {e[1] : e \in m}

\* a mutant of MapPut: an existing entry is kept
MapPutKeepFirst(m, k, v) == IF k \in Keys(m) THEN m ELSE m \cup {<<k, v>>}

\* m[k] = v
MapPut(m, k, v) == {e \in m : e[1] # k} \cup {<<k, v>>}

RECURSIVE PutAll(_, _)
\* for k, v := range eps { m[k] = v }; the keys of eps are distinct
PutAll(m, eps) ==
    IF eps = {} THEN m
    ELSE LET e == CHOOSE x \in eps : TRUE
         IN PutAll(MapPut(m, e[1], e[2]), eps \ {e})

(***************************************************************************)
(* newPipeConn                                                             *)
(***************************************************************************)
newPipeConn(name) == [addr |-> name, closed |-> FALSE, pend |-> {}]

(***************************************************************************)
(* Init: initOnce.Do(func() { err = loadSharedObjects(ctx) })              *)
(***************************************************************************)
\* a mutant of EnterInit: no sync.Once, every call runs the discovery
EnterInitNoOnce(t) ==
    /\ err' = [err EXCEPT ![t] = NoErr]
    /\ so' = [so EXCEPT ![t] = 0]
    /\ loadRuns' = loadRuns + 1
    /\ pc' = [pc EXCEPT ![t] = "load"]

\* the entry of Init: var err error, then initOnce.Do, whose fast path
\* reads done and does not call f when it is set
EnterInit(t) ==
    /\ err' = [err EXCEPT ![t] = NoErr]
    /\ so' = [so EXCEPT ![t] = 0]
    /\ loadRuns' = loadRuns
    /\ pc' = [pc EXCEPT ![t] = IF onceDone THEN "ret" ELSE "slow"]

\* a host goroutine calls gocsi.Init
CallInit(t) ==
    /\ pc[t] = "idle"
    /\ ncalls < MaxCalls
    /\ ncalls' = ncalls + 1
    /\ op' = [op EXCEPT ![t] = [kind |-> "Init", name |-> NoName]]
    /\ EnterInit(t)
    /\ UNCHANGED <<csiPlugins, endpointCtors, onceDone, onceM, loadEnds,
                   loadErr, rets, objVars, netVars, cliVars>>

\* a host goroutine calls gocsi.New, which first calls Init
CallNew(t, name) ==
    /\ pc[t] = "idle"
    /\ ncalls < MaxCalls
    /\ ncalls' = ncalls + 1
    /\ op' = [op EXCEPT ![t] = [kind |-> "New", name |-> name]]
    /\ EnterInit(t)
    /\ UNCHANGED <<csiPlugins, endpointCtors, onceDone, onceM, loadEnds,
                   loadErr, rets, objVars, netVars, cliVars>>

\* sync.Once.Do, slow path: lock m; if done is still unset, run f holding m
OnceDoSlow(t) ==
    /\ pc[t] = "slow"
    /\ onceM = Nil
    /\ IF onceDone
       THEN /\ pc' = [pc EXCEPT ![t] = "ret"]
            /\ UNCHANGED <<onceM, loadRuns>>
       ELSE /\ onceM' = t
            /\ loadRuns' = loadRuns + 1
            /\ pc' = [pc EXCEPT ![t] = "load"]
    /\ UNCHANGED <<csiPlugins, endpointCtors, onceDone, op, err, so, ncalls,
                   loadEnds, loadErr, rets, objVars, netVars, cliVars>>

(***************************************************************************)
(* loadSharedObjects                                                       *)
(***************************************************************************)
\* what loading one shared object returns: NoErr, or the error that ends the loop
LoadError(file) ==
    LET p == PluginFile(file)
    IN  CASE ~p.open -> Err("plugin.Open", file)
          [] p.sym = "missing" -> Err("plugin.Lookup", file)
          [] p.sym = "badtype" -> Err("invalid endpoints field", file)
          [] p.sym = "nilptr" -> Err("nil endpoints", "")
          [] OTHER -> NoErr

\* a mutant of LoadReturn: a failed discovery unregisters what it registered
LoadReturnRollback(t, e) ==
    /\ err' = [err EXCEPT ![t] = e]
    /\ pc' = [pc EXCEPT ![t] = "loaded"]
    /\ endpointCtors' = IF e # NoErr THEN {} ELSE endpointCtors
    /\ UNCHANGED so

\* the function ends and hands its error to the closure of Init
LoadReturn(t, e) ==
    /\ err' = [err EXCEPT ![t] = e]
    /\ pc' = [pc EXCEPT ![t] = "loaded"]
    /\ UNCHANGED <<endpointCtors, so>>

\* rdr.Read() of CSI_PLUGINS, and the two early returns
LoadRead(t) ==
    /\ pc[t] = "load"
    /\ so[t] = 0
    /\ IF ~csiPlugins.parse
       THEN LoadReturn(t, Err("csv", ""))
       ELSE IF Len(csiPlugins.sos) = 0
            THEN LoadReturn(t, NoErr)
            ELSE /\ so' = [so EXCEPT ![t] = 1]
                 /\ UNCHANGED <<endpointCtors, err, pc>>
    /\ UNCHANGED <<csiPlugins, onceDone, onceM, op, ncalls, loadRuns,
                   loadEnds, loadErr, rets, objVars, netVars, cliVars>>

\* one iteration of the loop over sos, or its end
LoadModule(t) ==
    /\ pc[t] = "load"
    /\ so[t] > 0
    /\ IF so[t] > Len(csiPlugins.sos)
       THEN LoadReturn(t, NoErr)
       ELSE LET file == csiPlugins.sos[so[t]]
            IN  IF LoadError(file) # NoErr
                THEN LoadReturn(t, LoadError(file))
                ELSE /\ endpointCtors' = PutAll(endpointCtors, PluginFile(file).eps)
                     /\ so' = [so EXCEPT ![t] = @ + 1]
                     /\ UNCHANGED <<err, pc>>
    /\ UNCHANGED <<csiPlugins, onceDone, onceM, op, ncalls, loadRuns,
                   loadEnds, loadErr, rets, objVars, netVars, cliVars>>

\* f returned: the deferred store of done and unlock of m (m is held only
\* by a goroutine that went through the slow path)
OnceFinish(t) ==
    /\ pc[t] = "loaded"
    /\ onceDone' = TRUE
    /\ onceM' = IF onceM = t THEN Nil ELSE onceM
    /\ loadEnds' = loadEnds + 1
    /\ loadErr' = Append(loadErr, err[t])
    /\ pc' = [pc EXCEPT ![t] = "ret"]
    /\ UNCHANGED <<csiPlugins, endpointCtors, op, err, so, ncalls, loadRuns,
                   rets, objVars, netVars, cliVars>>

(***************************************************************************)
(* The returns of Init and New.                                            *)
(***************************************************************************)
\* the outcome of a returned call, as the host sees it: svc is the endpoint returned (0 is
\* nil), err the error returned, init what the call's own Init returned and
\* ctor the constructor New invoked (Nil when it invoked none)
Ret(t, svc, e, ctor) ==
    [kind |-> op[t].kind, name |-> op[t].name,
     svc |-> svc, err |-> e, init |-> err[t], ctor |-> ctor]

\* the call is over: the goroutine's locals are gone
NoOp == [kind |-> "Init", name |-> NoName]
Idle(t) ==
    /\ pc' = [pc EXCEPT ![t] = "idle"]
    /\ op' = [op EXCEPT ![t] = NoOp]
    /\ err' = [err EXCEPT ![t] = NoErr]

\* return err, to the host
InitReturn(t) ==
    /\ pc[t] = "ret"
    /\ op[t].kind = "Init"
    /\ rets' = rets \cup {Ret(t, 0, err[t], Nil)}
    /\ Idle(t)
    /\ UNCHANGED <<csiPlugins, endpointCtors, onceDone, onceM, so,
                   ncalls, loadRuns, loadEnds, loadErr, objVars, netVars, cliVars>>

\* if err := Init(ctx); err != nil { return nil, err }
NewInitFailed(t) ==
    /\ pc[t] = "ret"
    /\ op[t].kind = "New"
    /\ err[t] # NoErr
    /\ rets' = rets \cup {Ret(t, 0, err[t], Nil)}
    /\ Idle(t)
    /\ UNCHANGED <<csiPlugins, endpointCtors, onceDone, onceM, so,
                   ncalls, loadRuns, loadEnds, loadErr, objVars, netVars, cliVars>>

\* a mutant of Matches: the key is compared with ==
MatchesExact(m, name) == {e \in m : e[1] = name}

\* the entries of the map the range loop of New can stop at: the loop
\* visits the map in an unspecified order and returns at the first key
\* that folds to the name
Matches(m, name) == {e \in m : EqualFold(e[1], name)}

\* the loop found no key: return nil, errInvalidEndpointProvider
NewNoMatch(t) ==
    /\ pc[t] = "ret"
    /\ op[t].kind = "New"
    /\ err[t] = NoErr
    /\ Matches(endpointCtors, op[t].name) = {}
    /\ rets' = rets \cup {Ret(t, 0, Err("invalid endpoint provider", ""), Nil)}
    /\ Idle(t)
    /\ UNCHANGED <<csiPlugins, endpointCtors, onceDone, onceM, so,
                   ncalls, loadRuns, loadEnds, loadErr, objVars, netVars, cliVars>>

\* a mutant of NewBuild: the value is wrapped without the o.(Endpoint) check
NewBuildUnchecked(t, k, v) ==
    /\ conns' = Append(conns, newPipeConn(k))
    /\ facades' = Append(facades, [name |-> k, endp |-> v, conn |-> Len(conns) + 1])
    /\ plug' = Append(plug, NoPlug)
    /\ rets' = rets \cup {Ret(t, Len(facades) + 1, NoErr, v)}

\* o := v(), then the endpoint with its pipeConn, or the type error
NewBuild(t, k, v) ==
    IF IsEndpoint(TypeOf(v))
    THEN /\ conns' = Append(conns, newPipeConn(k))
         /\ facades' = Append(facades, [name |-> k, endp |-> v, conn |-> Len(conns) + 1])
         /\ plug' = Append(plug, NoPlug)
         /\ rets' = rets \cup {Ret(t, Len(facades) + 1, NoErr, v)}
    ELSE /\ rets' = rets \cup {Ret(t, 0, Err("invalid endpoint type", TypeOf(v)), v)}
         /\ UNCHANGED objVars

\* the loop stops at an entry whose key folds to the name
NewMatch(t) ==
    /\ pc[t] = "ret"
    /\ op[t].kind = "New"
    /\ err[t] = NoErr
    /\ \E e \in Matches(endpointCtors, op[t].name) : NewBuild(t, e[1], e[2])
    /\ Idle(t)
    /\ UNCHANGED <<csiPlugins, endpointCtors, onceDone, onceM, so,
                   ncalls, loadRuns, loadEnds, loadErr, netVars, cliVars>>

(***************************************************************************)
(* The registry and the factory under concurrent callers.                  *)
(***************************************************************************)
Init ==
    /\ csiPlugins \in Environments
    /\ endpointCtors = {}
    /\ onceDone = FALSE
    /\ onceM = Nil
    /\ pc = [t \in Threads |-> "idle"]
    /\ op = [t \in Threads |-> NoOp]
    /\ err = [t \in Threads |-> NoErr]
    /\ so = [t \in Threads |-> 0]
    /\ ncalls = 0
    /\ loadRuns = 0
    /\ loadEnds = 0
    /\ loadErr = <<>>
    /\ rets = {}
    /\ facades = <<>>
    /\ conns = <<>>
    /\ plug = <<>>
    /\ NoTraffic
    /\ NoCommand

Next ==
    \E t \in Threads :
        \/ CallInit(t)
        \/ \E name \in RequestNames : CallNew(t, name)
        \/ OnceDoSlow(t)
        \/ LoadRead(t)
        \/ LoadModule(t)
        \/ OnceFinish(t)
        \/ InitReturn(t)
        \/ NewInitFailed(t)
        \/ NewNoMatch(t)
        \/ NewMatch(t)

Spec == Init /\ [][Next]_vars

(***************************************************************************)
(* Claims about the registry and the factory.                              *)
(***************************************************************************)
NewRets == {r \in rets : r.kind = "New"}

\* C1: however many Init calls are issued (New's included), concurrently or
\* one after another, loadSharedObjects is executed at most once, and no
\* call is past initOnce.Do or has returned before that execution finished.
C1_DiscoveryRunsOnce ==
    /\ loadRuns <= 1
    /\ loadEnds <= loadRuns
    /\ \A t \in Threads : pc[t] = "ret" => loadEnds = 1
    /\ rets # {} => loadEnds = 1

\* one call ran the discovery and returned, while a concurrent call that
\* entered initOnce.Do before it finished has yet to take the mutex
C1_Witness ==
    /\ loadRuns = 1
    /\ loadEnds = 1
    /\ rets # {}
    /\ \E t \in Threads : pc[t] = "slow"

\* C2: every call of Init returns the result of the one discovery: the
\* error it failed with, or nil; New, which calls Init first, fails with
\* that error.
C2_AllCallersSeeTheResult ==
    \A r \in rets :
        /\ r.init = loadErr[1]
        /\ loadErr[1] # NoErr => r.err = loadErr[1]

\* C8, as stated: New succeeds, bound to a registered key that equals the
\* name ignoring case, whenever such a key is registered, and fails with
\* errInvalidEndpointProvider otherwise.
C8_AsStated ==
    \A r \in NewRets :
        IF \E k \in Keys(endpointCtors) : EqualFold(k, r.name)
        THEN /\ r.err = NoErr
             /\ r.svc \in 1..Len(facades)
             /\ facades[r.svc].name \in Keys(endpointCtors)
             /\ EqualFold(facades[r.svc].name, r.name)
        ELSE /\ r.err = Err("invalid endpoint provider", "")
             /\ r.svc = 0

\* C8, amended: a New that succeeds is bound to a registered key that
\* equals the name ignoring case, with that key's constructor; a New whose
\* Init returned nil fails with errInvalidEndpointProvider and returns no
\* endpoint when no key equals the name ignoring case, and succeeds when
\* every such key's constructor yields an Endpoint; a New whose Init
\* returned an error returns that error.
C8_CaseInsensitiveLookup ==
    \A r \in NewRets :
        LET found == {e \in endpointCtors : EqualFold(e[1], r.name)}
        IN  /\ r.err = NoErr =>
                /\ r.svc \in 1..Len(facades)
                /\ <<facades[r.svc].name, facades[r.svc].endp>> \in found
            /\ r.err # NoErr => r.svc = 0
            /\ r.init # NoErr => r.err = r.init
            /\ (r.init = NoErr /\ found = {}) =>
                r.err = Err("invalid endpoint provider", "")
            /\ (r.init = NoErr /\ found # {}
                    /\ \A e \in found : IsEndpoint(TypeOf(e[2]))) =>
                r.err = NoErr

\* New("MOCK") returned an endpoint bound to the key "mock", and a New of
\* an unregistered name returned errInvalidEndpointProvider
C8_Witness ==
    /\ \E r \in NewRets :
        /\ r.name = MOCK
        /\ r.err = NoErr
        /\ facades[r.svc].name = mock
    /\ \E r \in NewRets :
        /\ r.name = doesnotexist
        /\ r.err = Err("invalid endpoint provider", "")

\* C9: when New invoked a registered constructor and the value it returned
\* is not an Endpoint, New fails with the error naming the value's type,
\* returns no endpoint and builds no pipeConn: the pipeConns are those of
\* the endpoints returned.
C9_InvalidProviderType ==
    /\ \A r \in NewRets :
        (r.ctor # Nil /\ ~IsEndpoint(TypeOf(r.ctor))) =>
            /\ r.err = Err("invalid endpoint type", TypeOf(r.ctor))
            /\ r.svc = 0
    /\ Len(conns) = Cardinality({r \in NewRets : r.svc # 0})
    /\ Len(facades) = Len(conns)

\* New matched the key "Mock", whose constructor yields a *b.legacy
C9_Witness ==
    \E r \in NewRets :
        /\ r.ctor = "b.Mock"
        /\ r.err = Err("invalid endpoint type", "*b.legacy")

\* the modules of CSI_PLUGINS the discovery registers: those before the
\* first that fails to load
RECURSIVE LoadedFrom(_)
LoadedFrom(i) ==
    IF i > Len(csiPlugins.sos) \/ LoadError(csiPlugins.sos[i]) # NoErr
    THEN {}
    ELSE {i} \cup LoadedFrom(i + 1)
Exporters(k) == {i \in LoadedFrom(1) : k \in Keys(PluginFile(csiPlugins.sos[i]).eps)}
LastExporter(k) == CHOOSE i \in Exporters(k) : \A j \in Exporters(k) : j <= i

\* C10: after Init the registry holds one entry for each name a loaded
\* module exports, with the constructor of the last loaded module that
\* exports the name.
C10_LaterLoadOverwrites ==
    onceDone =>
        /\ \A k \in Keys(endpointCtors) :
            Cardinality({e \in endpointCtors : e[1] = k}) = 1
        /\ \A e \in endpointCtors : Exporters(e[1]) # {}
        /\ \A k \in {mock, Mock, MOCK, xkey} :
            Exporters(k) # {} =>
                \E e \in PluginFile(csiPlugins.sos[LastExporter(k)]).eps :
                    e[1] = k /\ e \in endpointCtors

\* a.so then b.so: both export "mock", and the registry holds b.so's
C10_Witness ==
    /\ onceDone
    /\ csiPlugins.sos = <<"a.so", "b.so">>
    /\ <<mock, "b.mock">> \in endpointCtors

\* the positions in CSI_PLUGINS of the modules that fail to load
Failing == {i \in 1..Len(csiPlugins.sos) : LoadError(csiPlugins.sos[i]) # NoErr}
FirstFailing == CHOOSE i \in Failing : \A j \in Failing : i <= j

\* C11: when the k-th module of CSI_PLUGINS is the first that fails to load,
\* the loop never goes past position k; the discovery ends with that
\* module's error, which the Init that ran it returns; and the registry
\* then holds the names the modules 1..k-1 export, each with the constructor
\* of one of them, and nothing of a module after the k-th.
C11_FailFastKeepsEarlier ==
    (csiPlugins.parse /\ Failing # {}) =>
        LET k == FirstFailing
            before == UNION {PluginFile(csiPlugins.sos[i]).eps : i \in 1..(k - 1)}
        IN  /\ \A t \in Threads : so[t] <= k
            /\ endpointCtors \subseteq before
            /\ onceDone =>
                /\ loadErr = <<LoadError(csiPlugins.sos[k])>>
                /\ \/ \E t \in Threads : pc[t] = "ret" /\ err[t] = loadErr[1]
                   \/ \E r \in rets : r.init = loadErr[1] /\ r.err = loadErr[1]
                /\ Keys(endpointCtors) = Keys(before)

\* a.so loaded and badsym.so failed: Init returned the error of badsym.so
\* and the providers of a.so are registered
C11_Witness ==
    /\ csiPlugins.sos = <<"a.so", "badsym.so">>
    /\ onceDone
    /\ endpointCtors = PluginFile("a.so").eps
    /\ \E r \in rets :
        /\ r.kind = "Init"
        /\ r.err = Err("invalid endpoints field", "badsym.so")

(***************************************************************************)
(* pipeConn.  chcn is an unbuffered channel of net.Conn: a send completes  *)
(* only together with a receive, a send on the closed channel panics       *)
(* (whether the sender was already blocked in it or not), a receive from   *)
(* the closed channel yields no value, and closing it again panics.  A     *)
(* panic nobody recovers ends the process.                                 *)
(*   pend : the halves whose  go func() { p.chcn <- r }()  has not         *)
(*          completed its send                                             *)
(***************************************************************************)
\* the two ends net.Pipe() returns for the i-th pair
R(i) == [pipe |-> i, end |-> "r"]
W(i) == [pipe |-> i, end |-> "w"]
NilConn == [pipe |-> 0, end |-> "nil"]
\* the end a net.Pipe() end is connected to
Peer(h) == [pipe |-> h.pipe, end |-> IF h.end = "r" THEN "w" ELSE "r"]

\* a mutant of Dial: the goroutine sends the end that Dial returns
DialSameEnd(c) ==
    LET i == npipes + 1
    IN  /\ npipes' = i
        /\ conns' = [conns EXCEPT ![c].pend = @ \cup {W(i)}]
        /\ dials' = dials \cup {[pipe |-> i, on |-> c, conn |-> W(i), err |-> NoErr,
                                 closed |-> conns[c].closed]}

\* a mutant of Dial: the caller itself sends r, so Dial returns only when a
\* goroutine is in Accept
DialBlocking(c) ==
    LET i == npipes + 1
    IN  /\ \E a \in Accepters : acc[a] # NotAccepting /\ acc[a].on = c
        /\ npipes' = i
        /\ conns' = [conns EXCEPT ![c].pend = @ \cup {R(i)}]
        /\ dials' = dials \cup {[pipe |-> i, on |-> c, conn |-> W(i), err |-> NoErr,
                                 closed |-> conns[c].closed]}

\* Dial: r, w := net.Pipe(); go func() { p.chcn <- r }(); return w, nil.
\* A record of dials is what the caller got, and whether chcn was closed
\* when it called.
Dial(c) ==
    LET i == npipes + 1
    IN  /\ npipes' = i
        /\ conns' = [conns EXCEPT ![c].pend = @ \cup {R(i)}]
        /\ dials' = dials \cup {[pipe |-> i, on |-> c, conn |-> W(i), err |-> NoErr,
                                 closed |-> conns[c].closed]}

\* the goroutine of a Dial runs its send on the closed channel
HandoffPanic(c, h) ==
    /\ conns[c].closed
    /\ h \in conns[c].pend
    /\ panicked' = [why |-> "send on closed channel", on |-> c, conn |-> h]

\* a goroutine enters Accept and blocks in the range over chcn
AcceptCall(a, c) ==
    /\ acc[a] = NotAccepting
    /\ acc' = [acc EXCEPT ![a] = [on |-> c, n |-> nacc + 1, open |-> ~conns[c].closed]]
    /\ nacc' = nacc + 1

\* what an Accept returns to its caller, whether chcn was open when it was
\* called and whether chcn was closed when it returned
Accepted(a, h, e) ==
    [n |-> acc[a].n, by |-> a, on |-> acc[a].on, conn |-> h, err |-> e,
     open |-> acc[a].open, closed |-> conns[acc[a].on].closed]

\* the range receives the end a Dial's goroutine sends: return c, nil
AcceptRecv(a, h) ==
    /\ acc[a] # NotAccepting
    /\ ~conns[acc[a].on].closed
    /\ h \in conns[acc[a].on].pend
    /\ conns' = [conns EXCEPT ![acc[a].on].pend = @ \ {h}]
    /\ accepts' = accepts \cup {Accepted(a, h, NoErr)}
    /\ acc' = [acc EXCEPT ![a] = NotAccepting]

\* a mutant of AcceptEOF: the closed listener is reported as an error
AcceptEOFError(a) ==
    /\ acc[a] # NotAccepting
    /\ conns[acc[a].on].closed
    /\ accepts' = accepts \cup {Accepted(a, NilConn, Err("closed", ""))}
    /\ acc' = [acc EXCEPT ![a] = NotAccepting]

\* chcn is closed, the range ends: return nil, nil
AcceptEOF(a) ==
    /\ acc[a] # NotAccepting
    /\ conns[acc[a].on].closed
    /\ accepts' = accepts \cup {Accepted(a, NilConn, NoErr)}
    /\ acc' = [acc EXCEPT ![a] = NotAccepting]

\* Close: close(p.chcn)
Close(c) ==
    IF conns[c].closed
    THEN /\ panicked' = [why |-> "close of closed channel", on |-> c, conn |-> NilConn]
         /\ UNCHANGED conns
    ELSE /\ conns' = [conns EXCEPT ![c].closed = TRUE]
         /\ UNCHANGED panicked

(***************************************************************************)
(* One pipeConn used by the host goroutines: the state after Init loaded   *)
(* a.so and New("mock") returned the first endpoint.                       *)
(***************************************************************************)
AfterNewMock ==
    /\ csiPlugins = [parse |-> TRUE, sos |-> <<"a.so">>]
    /\ endpointCtors = PluginFile("a.so").eps
    /\ onceDone = TRUE
    /\ onceM = Nil
    /\ pc = [t \in Threads |-> "idle"]
    /\ op = [t \in Threads |-> NoOp]
    /\ err = [t \in Threads |-> NoErr]
    /\ so = [t \in Threads |-> 0]
    /\ loadRuns = 1
    /\ loadEnds = 1
    /\ loadErr = <<NoErr>>

BridgeInit ==
    /\ AfterNewMock
    /\ ncalls = 1
    /\ rets = {[kind |-> "New", name |-> mock, svc |-> 1,
                err |-> NoErr, init |-> NoErr, ctor |-> "a.mock"]}
    /\ facades = <<[name |-> mock, endp |-> "a.mock", conn |-> 1]>>
    /\ conns = <<newPipeConn(mock)>>
    /\ plug = <<NoPlug>>
    /\ NoTraffic
    /\ NoCommand

BridgeDial(t) ==
    /\ panicked = NoPanic
    /\ npipes < MaxDials
    /\ Dial(1)
    /\ UNCHANGED <<cliVars, regVars, facades, plug, acc, nacc, accepts, panicked, fcVars>>

BridgeHandoffPanic ==
    /\ panicked = NoPanic
    /\ \E h \in conns[1].pend : HandoffPanic(1, h)
    /\ UNCHANGED <<cliVars, regVars, objVars, npipes, acc, nacc, dials, accepts, fcVars>>

BridgeAcceptCall(t) ==
    /\ panicked = NoPanic
    /\ nacc < MaxAccepts
    /\ AcceptCall(t, 1)
    /\ UNCHANGED <<cliVars, regVars, objVars, npipes, dials, accepts, panicked, fcVars>>

BridgeAcceptRecv(t) ==
    /\ panicked = NoPanic
    /\ \E h \in conns[1].pend : AcceptRecv(t, h)
    /\ UNCHANGED <<cliVars, regVars, facades, plug, npipes, nacc, dials, panicked, fcVars>>

BridgeAcceptEOF(t) ==
    /\ panicked = NoPanic
    /\ AcceptEOF(t)
    /\ UNCHANGED <<cliVars, regVars, objVars, npipes, nacc, dials, panicked, fcVars>>

BridgeClose(t) ==
    /\ panicked = NoPanic
    /\ Close(1)
    /\ UNCHANGED <<cliVars, regVars, facades, plug, npipes, acc, nacc, dials, accepts, fcVars>>

BridgeNext ==
    \/ \E t \in Threads :
        \/ BridgeDial(t)
        \/ BridgeAcceptCall(t)
        \/ BridgeAcceptRecv(t)
        \/ BridgeAcceptEOF(t)
        \/ BridgeClose(t)
    \/ BridgeHandoffPanic

SpecBridge == BridgeInit /\ [][BridgeNext]_vars

(***************************************************************************)
(* Claims about pipeConn.                                                  *)
(***************************************************************************)
Streams == {r \in accepts : r.conn # NilConn}

\* C3: on an open pipeConn every stream an Accept returned is the peer end
\* of the stream one Dial on it returned, no end is returned by two Accepts,
\* no Accept returns without a stream, and the Accepts that succeeded plus
\* the handoffs still waiting are the Dials made: N Dials met by N Accepts
\* leave exactly N successful Accepts.
C3_DialsMatchAccepts ==
    /\ \A r \in Streams :
        \E d \in dials : d.on = r.on /\ d.err = NoErr /\ r.conn = Peer(d.conn)
    /\ \A r1, r2 \in Streams : r1.conn = r2.conn => r1 = r2
    /\ \A c \in 1..Len(conns) :
        ~conns[c].closed =>
            /\ \A r \in accepts : r.on = c => r.conn # NilConn
            /\ Cardinality({r \in Streams : r.on = c}) + Cardinality(conns[c].pend)
                 = Cardinality({d \in dials : d.on = c})
            /\ \A a \in Accepters :
                (acc[a].on = c /\ conns[c].pend # {} /\ panicked = NoPanic) =>
                    \E h \in conns[c].pend : ENABLED AcceptRecv(a, h)

\* three Dials and three Accepts by two goroutines on the open pipeConn
C3_Witness ==
    /\ ~conns[1].closed
    /\ Cardinality(dials) = 3
    /\ Cardinality(Streams) = 3
    /\ \E r1, r2 \in Streams : r1.by # r2.by

\* C4: once chcn is closed, an Accept that returns returns nil, nil, and a
\* goroutine blocked in Accept can return (in a process no panic has ended).
C4_AcceptAfterClose ==
    /\ \A r \in accepts : r.closed => (r.conn = NilConn /\ r.err = NoErr)
    /\ \A a \in Accepters :
        (acc[a] # NotAccepting /\ conns[acc[a].on].closed /\ panicked = NoPanic) =>
            ENABLED AcceptEOF(a)

\* an Accept blocked before Close and one called after it both returned nil, nil
C4_Witness ==
    /\ conns[1].closed
    /\ \E r1, r2 \in accepts :
        /\ r1.open /\ r1.closed /\ r1.conn = NilConn
        /\ ~r2.open /\ r2.closed /\ r2.conn = NilConn

\* C5: a Dial called on a closed pipeConn returns an error and no stream.
C5_DialAfterCloseFails ==
    \A d \in dials : d.closed => (d.err # NoErr /\ d.conn = NilConn)

(***************************************************************************)
(* The endpoint New returns, and the plug-in value it wraps.  The plug-in  *)
(* is the mock: its Serve registers the value for the three CSI services   *)
(* on a gRPC server and serves the listener it is given; its ListVolumes   *)
(* returns the three volumes and its other methods return nil, nil.        *)
(***************************************************************************)
\* the requests of a method: csi.ListVolumesRequest{StartingToken: ...}
\* with one of two tokens, and the empty request of the other methods
RequestsOf(m) == IF m = "ListVolumes" THEN {"1", "2"} ELSE {""}
\* the listener the host passes to Serve
HostListeners == {"nil", "tcp"}

Methods == {"ListVolumes", "GetCapacity", "GetPluginInfo", "GetNodeID"}

\* the CSI service that declares a method
ServiceOf(m) ==
    CASE m \in {"ListVolumes", "GetCapacity"} -> "Controller"
      [] m = "GetPluginInfo" -> "Identity"
      [] OTHER -> "Node"

\* the client a method of the endpoint dials: dialController, dialIdentity
\* or dialNode
DialedClient(m) ==
    CASE m \in {"ListVolumes", "GetCapacity"} -> "Controller"
      [] m = "GetPluginInfo" -> "Identity"
      [] OTHER -> "Node"

NilResp == <<"nil">>
listVolumesResponse == <<"vol-001", "vol-002", "vol-003">>

\* the mock's method m called with request q
MockMethod(m, q) ==
    IF m = "ListVolumes"
    THEN [resp |-> listVolumesResponse, err |-> NoErr]
    ELSE [resp |-> NilResp, err |-> NoErr]

\* the plug-in's gRPC server handles a request: the services registered
\* are the value's own methods
ServerDispatch(g, m, q) ==
    IF ServiceOf(m) = g
    THEN MockMethod(m, q)
    ELSE [resp |-> NilResp, err |-> Err("Unimplemented", m)]

SrvOf(f) == IF f = 1 THEN "srv1" ELSE "srv2"

\* endpoint.Init: return e.endp.Init(ctx)
FacadeInitCall(t, f) ==
    /\ panicked = NoPanic
    /\ host[t] = HostIdle
    /\ plug[f].init = 0
    /\ plug' = [plug EXCEPT ![f].init = 1]
    /\ UNCHANGED <<cliVars, regVars, facades, conns, brVars, fcVars>>

\* a mutant of ServeListener: the pipeConn of the endpoint built before or
\* after this one
ServeListenerOther(f, li) == IF f = 1 THEN facades[2].conn ELSE facades[1].conn

\* the listener endpoint.Serve hands to the plug-in: e.conn
ServeListener(f, li) == facades[f].conn

\* endpoint.Serve, run in a goroutine of its own: e.endp.Serve(ctx, e.conn),
\* which serves the listener it is given
Serve(f, li) ==
    /\ panicked = NoPanic
    /\ plug[f].serve = "no"
    /\ plug' = [plug EXCEPT ![f].serve = "yes", ![f].li = ServeListener(f, li)]
    /\ UNCHANGED <<cliVars, regVars, facades, conns, brVars, fcVars>>

\* the server's loop calls Accept on its listener (a listener of the
\* host, not a pipeConn of this package, gets no stream from it)
ServerListen(f) ==
    /\ panicked = NoPanic
    /\ plug[f].serve = "yes"
    /\ plug[f].li > 0
    /\ AcceptCall(SrvOf(f), plug[f].li)
    /\ UNCHANGED <<cliVars, regVars, objVars, npipes, dials, accepts, panicked, fcVars>>

\* the server's Accept returns a stream, which is served in a goroutine
\* of its own while the loop goes on
ServerAccept(f) ==
    /\ panicked = NoPanic
    /\ plug[f].serve = "yes"
    /\ acc[SrvOf(f)] # NotAccepting
    /\ \E h \in conns[acc[SrvOf(f)].on].pend :
        /\ AcceptRecv(SrvOf(f), h)
        /\ srvConns' = srvConns \cup {<<f, h>>}
    /\ UNCHANGED <<cliVars, regVars, facades, plug, npipes, nacc, dials, panicked,
                   host, requests, responses, invoked, frets, shuts>>

\* the server's Accept returns no stream: the loop and Serve end
ServerStop(f) ==
    /\ panicked = NoPanic
    /\ plug[f].serve = "yes"
    /\ AcceptEOF(SrvOf(f))
    /\ plug' = [plug EXCEPT ![f].serve = "over"]
    /\ UNCHANGED <<cliVars, regVars, facades, conns, npipes, nacc, dials, panicked, fcVars>>

\* a mutant of ServerHandle: the request of a stream the server has not
\* accepted is answered
ServerHandleUnaccepted(f) ==
    /\ panicked = NoPanic
    /\ \E q \in requests :
        /\ \A r \in responses : r.pipe # q.pipe
        /\ responses' = responses \cup
               {[pipe |-> q.pipe, resp |-> MockMethod(q.method, q.req).resp,
                 err |-> NoErr]}
    /\ UNCHANGED <<cliVars, regVars, objVars, brVars, host, srvConns, requests, invoked,
                   frets, shuts>>

\* the server reads the request of an accepted stream, calls the method of
\* the registered value and writes what it returned
ServerHandle(f) ==
    /\ panicked = NoPanic
    /\ \E q \in requests :
        /\ <<f, R(q.pipe)>> \in srvConns
        /\ \A r \in responses : r.pipe # q.pipe
        /\ LET out == ServerDispatch(q.group, q.method, q.req)
           IN  /\ responses' = responses \cup
                      {[pipe |-> q.pipe, resp |-> out.resp, err |-> out.err]}
               /\ invoked' = IF ServiceOf(q.method) = q.group
                             THEN invoked \cup
                                  {[pipe |-> q.pipe, fac |-> f, method |-> q.method,
                                    req |-> q.req,
                                    k |-> 1 + Cardinality({i \in invoked : i.pipe = q.pipe})]}
                             ELSE invoked
    /\ UNCHANGED <<cliVars, regVars, objVars, brVars, host, srvConns, requests, frets, shuts>>

\* a mutant of Forwarded: ListVolumes calls the client's GetCapacity
ForwardedToNeighbour(m, q) ==
    [group |-> DialedClient(m),
     method |-> IF m = "ListVolumes" THEN "GetCapacity" ELSE m,
     req |-> q]

\* what a method of the endpoint sends: c, err := e.dialX(ctx), then
\* c.Method(ctx, req) on that client
Forwarded(m, q) == [group |-> DialedClient(m), method |-> m, req |-> q]

\* a method of the endpoint is called: the client of grpc.DialContext
\* connects through e.conn.Dial and the request goes out on that stream
ForwardCall(t, f, m, q) ==
    /\ panicked = NoPanic
    /\ host[t] = HostIdle
    /\ npipes < MaxRpcs
    /\ Dial(facades[f].conn)
    /\ host' = [host EXCEPT ![t] = [HostIdle EXCEPT
                                       !.pc = "rpc", !.fac = f, !.method = m,
                                       !.req = q, !.pipe = npipes + 1,
                                       !.after = plug[f].closed > 0]]
    /\ requests' = requests \cup
           {[pipe |-> npipes + 1, group |-> Forwarded(m, q).group,
             method |-> Forwarded(m, q).method, req |-> Forwarded(m, q).req]}
    /\ UNCHANGED <<cliVars, regVars, facades, plug, acc, nacc, accepts, panicked,
                   srvConns, responses, invoked, frets, shuts>>

\* the goroutine of a Dial sends on the closed chcn
ForwardPanic(f) ==
    /\ panicked = NoPanic
    /\ \E h \in conns[facades[f].conn].pend : HandoffPanic(facades[f].conn, h)
    /\ UNCHANGED <<cliVars, regVars, objVars, npipes, acc, nacc, dials, accepts, fcVars>>

\* the method returns the response and the error the client call returned
ForwardReturn(t) ==
    /\ panicked = NoPanic
    /\ host[t].pc = "rpc"
    /\ \E r \in responses :
        /\ r.pipe = host[t].pipe
        /\ frets' = frets \cup {[pipe |-> r.pipe, fac |-> host[t].fac,
                                 method |-> host[t].method, req |-> host[t].req,
                                 resp |-> r.resp, err |-> r.err,
                                 after |-> host[t].after]}
    /\ host' = [host EXCEPT ![t] = HostIdle]
    /\ UNCHANGED <<cliVars, regVars, objVars, brVars, srvConns, requests, responses,
                   invoked, shuts>>

\* a mutant of ShutdownPlugin: the pipeConn is closed before the value's
\* Shutdown is called
ShutdownCloseFirst(t, f) ==
    /\ panicked = NoPanic
    /\ host[t] = HostIdle
    /\ Close(facades[f].conn)
    /\ host' = [host EXCEPT ![t] = [HostIdle EXCEPT !.pc = "close", !.fac = f]]
    /\ UNCHANGED <<cliVars, regVars, facades, plug, npipes, acc, nacc, dials, accepts,
                   srvConns, requests, responses, invoked, frets, shuts>>

\* what the Shutdown of the value an endpoint wraps may return: the mock's
\* returns nil, and the interface lets another plug-in's fail
ShutdownResults(endp) ==
    IF endp = "a.mock" THEN {NoErr} ELSE {NoErr, Err("shutdown", "")}

\* endpoint.Shutdown, first statement: e.endp.Shutdown(ctx), which returns
\* perr; the statement drops it
ShutdownPlugin(t, f) ==
    /\ panicked = NoPanic
    /\ host[t] = HostIdle
    /\ plug' = [plug EXCEPT ![f].shut = @ + 1]
    /\ \E e \in ShutdownResults(facades[f].endp) :
        host' = [host EXCEPT ![t] = [HostIdle EXCEPT !.pc = "close", !.fac = f,
                                                     !.perr = e]]
    /\ UNCHANGED <<cliVars, regVars, facades, conns, brVars, srvConns, requests,
                   responses, invoked, frets, shuts>>

\* what endpoint.Shutdown returns: return nil
ShutdownReturns(perr) == NoErr

\* endpoint.Shutdown, the rest: e.conn.Close(); return nil.  A record of
\* shuts is what the value's Shutdown returned and what the caller got.
ShutdownClose(t) ==
    /\ panicked = NoPanic
    /\ host[t].pc = "close"
    /\ Close(facades[host[t].fac].conn)
    /\ plug' = [plug EXCEPT ![host[t].fac].closed =
                   IF conns[facades[host[t].fac].conn].closed THEN @ ELSE @ + 1]
    /\ shuts' = IF conns[facades[host[t].fac].conn].closed
                THEN shuts
                ELSE shuts \cup {[fac |-> host[t].fac, perr |-> host[t].perr,
                                  err |-> ShutdownReturns(host[t].perr)]}
    /\ host' = [host EXCEPT ![t] = HostIdle]
    /\ UNCHANGED <<cliVars, regVars, facades, npipes, acc, nacc, dials, accepts,
                   srvConns, requests, responses, invoked, frets>>

(***************************************************************************)
(* An endpoint of the provider "mock" used by the host goroutines: the     *)
(* state after Init loaded a.so and New("mock") returned it.               *)
(***************************************************************************)
Facades == {1}

FacadeInit ==
    /\ AfterNewMock
    /\ ncalls = Cardinality(Facades)
    /\ rets = {[kind |-> "New", name |-> mock, svc |-> i,
                err |-> NoErr, init |-> NoErr, ctor |-> "a.mock"] : i \in Facades}
    /\ facades = [i \in Facades |-> [name |-> mock, endp |-> "a.mock", conn |-> i]]
    /\ conns = [i \in Facades |-> newPipeConn(mock)]
    /\ plug = [i \in Facades |-> NoPlug]
    /\ NoTraffic
    /\ NoCommand

FacadeNext ==
    \/ \E t \in Threads, f \in Facades :
        \/ FacadeInitCall(t, f)
        \/ \E m \in Methods : \E q \in RequestsOf(m) : ForwardCall(t, f, m, q)
        \/ ShutdownPlugin(t, f)
    \/ \E t \in Threads :
        \/ ForwardReturn(t)
        \/ ShutdownClose(t)
    \/ \E f \in Facades :
        \/ \E li \in HostListeners : Serve(f, li)
        \/ ServerListen(f)
        \/ ServerAccept(f)
        \/ ServerStop(f)
        \/ ServerHandle(f)
        \/ ForwardPanic(f)

SpecFacade == FacadeInit /\ [][FacadeNext]_vars

(***************************************************************************)
(* An endpoint of the provider "x" from its creation to its shutdown: the  *)
(* state after Init loaded a.so and New("x") returned it.  The plug-in     *)
(* serves as the mock does, and its Shutdown may fail.  The host calls     *)
(* ListVolumes.                                                            *)
(***************************************************************************)
ShutdownInit ==
    /\ AfterNewMock
    /\ ncalls = 1
    /\ rets = {[kind |-> "New", name |-> xkey, svc |-> 1,
                err |-> NoErr, init |-> NoErr, ctor |-> "a.x"]}
    /\ facades = <<[name |-> xkey, endp |-> "a.x", conn |-> 1]>>
    /\ conns = <<newPipeConn(xkey)>>
    /\ plug = <<NoPlug>>
    /\ NoTraffic
    /\ NoCommand

ShutdownNext ==
    \/ \E t \in Threads :
        \/ FacadeInitCall(t, 1)
        \/ ForwardCall(t, 1, "ListVolumes", "1")
        \/ ShutdownPlugin(t, 1)
        \/ ForwardReturn(t)
        \/ ShutdownClose(t)
    \/ \E li \in HostListeners : Serve(1, li)
    \/ ServerListen(1)
    \/ ServerAccept(1)
    \/ ServerStop(1)
    \/ ServerHandle(1)
    \/ ForwardPanic(1)

SpecShutdown == ShutdownInit /\ [][ShutdownNext]_vars

(***************************************************************************)
(* Two endpoints used by the host goroutines: the state after Init loaded  *)
(* a.so, New("mock") returned the first and New("x") the second.  The      *)
(* plug-in of the second serves as the mock does.  The host has both      *)
(* served and calls ListVolumes on either.                                 *)
(***************************************************************************)
Pair == {1, 2}

PairInit ==
    /\ AfterNewMock
    /\ ncalls = 2
    /\ rets = {[kind |-> "New", name |-> mock, svc |-> 1,
                err |-> NoErr, init |-> NoErr, ctor |-> "a.mock"],
               [kind |-> "New", name |-> xkey, svc |-> 2,
                err |-> NoErr, init |-> NoErr, ctor |-> "a.x"]}
    /\ facades = <<[name |-> mock, endp |-> "a.mock", conn |-> 1],
                   [name |-> xkey, endp |-> "a.x", conn |-> 2]>>
    /\ conns = <<newPipeConn(mock), newPipeConn(xkey)>>
    /\ plug = <<NoPlug, NoPlug>>
    /\ NoTraffic
    /\ NoCommand

PairNext ==
    \/ \E t \in Threads, f \in Pair : ForwardCall(t, f, "ListVolumes", "1")
    \/ \E t \in Threads : ForwardReturn(t)
    \/ \E f \in Pair :
        \/ \E li \in HostListeners : Serve(f, li)
        \/ ServerListen(f)
        \/ ServerAccept(f)
        \/ ServerHandle(f)

SpecPair == PairInit /\ [][PairNext]_vars

(***************************************************************************)
(* The address parser: ParseProtoAddr of csc and parseProtoAddr of the     *)
(* mock, both FindStringSubmatch of                                        *)
(*   (?i)^((?:(?:tcp|udp|ip)[46]?)|(?:unix(?:gram|packet)?))://(.+)$       *)
(* Strings are sequences of characters.                                    *)
(***************************************************************************)
\* a mutant of RxFold: the pattern without (?i)
RxFoldNone(c) == c

\* (?i): a letter of the pattern matches either case of itself
RxFold(c) ==
    CASE c = "T" -> "t" [] c = "C" -> "c" [] c = "P" -> "p" [] c = "U" -> "u"
      [] c = "D" -> "d" [] c = "I" -> "i" [] c = "N" -> "n" [] c = "X" -> "x"
      [] c = "G" -> "g" [] c = "R" -> "r" [] c = "A" -> "a" [] c = "M" -> "m"
      [] c = "K" -> "k" [] c = "E" -> "e"
      [] OTHER -> c

RxFoldStr(w) == [i \in DOMAIN w |-> RxFold(w[i])]

\* (?:tcp|udp|ip)[46]?
RxInet ==
    {f \o v : f \in {<<"t", "c", "p">>, <<"u", "d", "p">>, <<"i", "p">>},
              v \in {<<>>, <<"4">>, <<"6">>}}
\* unix(?:gram|packet)?
RxUnix ==
    {<<"u", "n", "i", "x">> \o k :
        k \in {<<>>, <<"g", "r", "a", "m">>, <<"p", "a", "c", "k", "e", "t">>}}
\* ://
RxSep == <<":", "/", "/">>
\* .+  : one character or more, none of them a line feed
RxAnyPlus(w) == Len(w) >= 1 /\ \A i \in DOMAIN w : w[i] # "\n"

\* the lengths n of a first group s[1..n] with which the pattern matches
\* all of s (^ and $ are the ends of the text)
RxGroup1(s) ==
    {n \in 1..Len(s) :
        /\ RxFoldStr(SubSeq(s, 1, n)) \in RxInet \cup RxUnix
        /\ Len(s) >= n + 3
        /\ SubSeq(s, n + 1, n + 3) = RxSep
        /\ RxAnyPlus(SubSeq(s, n + 4, Len(s)))}

\* addrRX.FindStringSubmatch(s): <<>> is nil
FindStringSubmatch(s) ==
    IF RxGroup1(s) = {}
    THEN <<>>
    ELSE LET n == CHOOSE k \in RxGroup1(s) : TRUE
         IN  <<s, SubSeq(s, 1, n), SubSeq(s, n + 4, Len(s))>>

\* csc
ParseProtoAddr(s) ==
    LET m == FindStringSubmatch(s)
    IN  IF m = <<>>
        THEN [proto |-> <<>>, addr |-> <<>>, err |-> Err("ErrInvalidCSIEndpoint", "")]
        ELSE [proto |-> m[2], addr |-> m[3], err |-> NoErr]

\* the mock
parseProtoAddr(s) ==
    LET m == FindStringSubmatch(s)
    IN  IF m = <<>>
        THEN [proto |-> <<>>, addr |-> <<>>, err |-> Err("invalid address", s)]
        ELSE [proto |-> m[2], addr |-> m[3], err |-> NoErr]

\* the strings the parsers are given: a word, a separator and a rest
Upper(c) ==
    CASE c = "t" -> "T" [] c = "c" -> "C" [] c = "p" -> "P" [] c = "u" -> "U"
      [] c = "d" -> "D" [] c = "i" -> "I" [] c = "n" -> "N" [] c = "x" -> "X"
      [] c = "g" -> "G" [] c = "r" -> "R" [] c = "a" -> "A" [] c = "m" -> "M"
      [] c = "k" -> "K" [] c = "e" -> "E"
      [] OTHER -> c
InputWords ==
    LET lower == RxInet \cup RxUnix
    IN  lower
        \cup {[i \in DOMAIN w |-> Upper(w[i])] : w \in lower}
        \cup {[i \in DOMAIN w |-> IF i = 1 THEN Upper(w[i]) ELSE w[i]] : w \in lower}
        \cup {<<>>, <<"h", "t", "t", "p">>, <<"t", "c", "p", "5">>,
              <<"t", "c", "p", "4", "6">>, <<"x", "t", "c", "p">>,
              <<"u", "n", "i", "x", "x">>, <<" ", "t", "c", "p">>,
              <<"t", "c", "p", ":", "/", "/", "u", "d", "p">>}
InputSeps == {RxSep, <<":", "/">>, <<"/", "/">>, <<>>}
InputRests == UNION {[1..k -> {"a", "/", ":", "\n"}] : k \in 0..MaxRest}
Inputs == {w \o p \o r : w \in InputWords, p \in InputSeps, r \in InputRests}

\* a command of csc calls ParseProtoAddr
CscParse ==
    /\ \A r \in parsed : r.fn # "ParseProtoAddr"
    /\ parsed' = parsed \cup
           {[fn |-> "ParseProtoAddr", proto |-> ParseProtoAddr(protoAddr).proto,
             addr |-> ParseProtoAddr(protoAddr).addr,
             err |-> ParseProtoAddr(protoAddr).err]}
    /\ UNCHANGED <<regVars, objVars, netVars, protoAddr, csiEndpoint, mpc,
                   listenArgs, steps, stderr, exitCode>>

\* the mock calls parseProtoAddr
MockParse ==
    /\ \A r \in parsed : r.fn # "parseProtoAddr"
    /\ parsed' = parsed \cup
           {[fn |-> "parseProtoAddr", proto |-> parseProtoAddr(protoAddr).proto,
             addr |-> parseProtoAddr(protoAddr).addr,
             err |-> parseProtoAddr(protoAddr).err]}
    /\ UNCHANGED <<regVars, objVars, netVars, protoAddr, csiEndpoint, mpc,
                   listenArgs, steps, stderr, exitCode>>

\* the package gocsi of a process that has not called it
PackageAtStart ==
    /\ csiPlugins = [parse |-> TRUE, sos |-> <<>>]
    /\ endpointCtors = {}
    /\ onceDone = FALSE
    /\ onceM = Nil
    /\ pc = [t \in Threads |-> "idle"]
    /\ op = [t \in Threads |-> NoOp]
    /\ err = [t \in Threads |-> NoErr]
    /\ so = [t \in Threads |-> 0]
    /\ ncalls = 0
    /\ loadRuns = 0
    /\ loadEnds = 0
    /\ loadErr = <<>>
    /\ rets = {}
    /\ facades = <<>>
    /\ conns = <<>>
    /\ plug = <<>>
    /\ NoTraffic

ParserInit ==
    /\ PackageAtStart
    /\ protoAddr \in Inputs
    /\ parsed = {}
    /\ csiEndpoint = <<>>
    /\ mpc = "none"
    /\ listenArgs = <<>>
    /\ steps = <<>>
    /\ stderr = <<>>
    /\ exitCode = <<>>

ParserNext == CscParse \/ MockParse

SpecParser == ParserInit /\ [][ParserNext]_vars

(***************************************************************************)
(* main of the mock, run as a program of its own.  net.Listen and the gRPC *)
(* server can fail; the mock's Init returns nil.                           *)
(***************************************************************************)
\* "tcp://127.0.0.1:8080"
DefaultEndpoint ==
    <<"t", "c", "p", ":", "/", "/", "1", "2", "7", ".", "0", ".", "0", ".", "1",
      ":", "8", "0", "8", "0">>

\* fmt.Fprintf(os.Stderr, ...); os.Exit(1)
Die(text, arg) ==
    /\ stderr' = Append(stderr, [text |-> text, arg |-> arg])
    /\ exitCode' = <<1>>
    /\ mpc' = "exited"

\* protoAddr := os.Getenv("CSI_ENDPOINT"), replaced by the default if empty
MainGetenv ==
    /\ mpc = "start"
    /\ protoAddr' = IF csiEndpoint = <<>> THEN DefaultEndpoint ELSE csiEndpoint
    /\ mpc' = "parse"
    /\ UNCHANGED <<regVars, objVars, netVars, parsed, csiEndpoint, listenArgs,
                   steps, stderr, exitCode>>

\* a mutant of MainParse: err is not checked
MainParseUnchecked ==
    /\ mpc = "parse"
    /\ listenArgs' = <<parseProtoAddr(protoAddr).proto, parseProtoAddr(protoAddr).addr>>
    /\ mpc' = "listen"
    /\ UNCHANGED <<regVars, objVars, netVars, protoAddr, parsed, csiEndpoint,
                   steps, stderr, exitCode>>

\* proto, addr, err := parseProtoAddr(protoAddr), and the exit on an error
MainParse ==
    /\ mpc = "parse"
    /\ IF parseProtoAddr(protoAddr).err # NoErr
       THEN /\ Die("error: invalid endpoint", protoAddr)
            /\ UNCHANGED listenArgs
       ELSE /\ listenArgs' = <<parseProtoAddr(protoAddr).proto,
                               parseProtoAddr(protoAddr).addr>>
            /\ mpc' = "listen"
            /\ UNCHANGED <<stderr, exitCode>>
    /\ UNCHANGED <<regVars, objVars, netVars, protoAddr, parsed, csiEndpoint, steps>>

\* l, err := net.Listen(proto, addr), and the exit on an error
MainListen ==
    /\ mpc = "listen"
    /\ steps' = Append(steps, "listen")
    /\ \/ /\ mpc' = "init"
          /\ UNCHANGED <<stderr, exitCode>>
       \/ Die("error: failed to listen", listenArgs[2])
    /\ UNCHANGED <<regVars, objVars, netVars, protoAddr, parsed, csiEndpoint,
                   listenArgs>>

\* e := &endpoint{}; e.Init(ctx), which returns nil
MainInit ==
    /\ mpc = "init"
    /\ steps' = Append(steps, "Init")
    /\ mpc' = "serve"
    /\ UNCHANGED <<regVars, objVars, netVars, protoAddr, parsed, csiEndpoint,
                   listenArgs, stderr, exitCode>>

\* e.Serve(ctx, l) is called and blocks in grpcServer.Serve(li)
MainServe ==
    /\ mpc = "serve"
    /\ steps' = Append(steps, "Serve")
    /\ mpc' = "serving"
    /\ UNCHANGED <<regVars, objVars, netVars, protoAddr, parsed, csiEndpoint,
                   listenArgs, stderr, exitCode>>

\* e.Serve returns an error, and the exit
MainServeFailed ==
    /\ mpc = "serving"
    /\ Die("error: grpc failed", <<>>)
    /\ UNCHANGED <<regVars, objVars, netVars, protoAddr, parsed, csiEndpoint,
                   listenArgs, steps>>

MainStart ==
    /\ PackageAtStart
    /\ csiEndpoint \in Inputs
    /\ protoAddr = <<>>
    /\ parsed = {}
    /\ mpc = "start"
    /\ listenArgs = <<>>
    /\ steps = <<>>
    /\ stderr = <<>>
    /\ exitCode = <<>>

MainNext ==
    \/ MainGetenv
    \/ MainParse
    \/ MainListen
    \/ MainInit
    \/ MainServe
    \/ MainServeFailed

SpecMain == MainStart /\ [][MainNext]_vars

(***************************************************************************)
(* Claims about the endpoint.                                              *)
(***************************************************************************)
\* C6: a method of the endpoint called after Shutdown returned comes back
\* with an error, and its Dial does not end the process.
C6_FailsCleanlyAfterShutdown ==
    /\ \A r \in frets : r.after => r.err # NoErr
    /\ \A t \in Threads :
        (host[t].pc = "rpc" /\ host[t].after) => panicked.conn # R(host[t].pipe)

C12_ShutdownErrorReturned ==
    \A r \in shuts : r.perr # NoErr => r.err = r.perr

\* C14: the pipeConn of an endpoint is closed only after the Shutdown of the
\* value it wraps was called and returned: it is never closed while that
\* Shutdown has not been called, a goroutine reaches e.conn.Close() only
\* with that call behind it, and when the endpoint's Shutdown has returned
\* the pipeConn is closed.
C14_ShutdownOrdered ==
    \A f \in 1..Len(facades) :
        /\ conns[facades[f].conn].closed => plug[f].shut >= 1
        /\ plug[f].closed <= plug[f].shut
        /\ \A t \in Threads :
            (host[t].pc = "close" /\ host[t].fac = f) => plug[f].shut >= 1
        /\ \A r \in shuts : r.fac = f => conns[facades[f].conn].closed

\* Shutdown returned: the value's Shutdown was called once and failed, and
\* the pipeConn is closed
C14_Witness ==
    /\ plug[1].shut = 1
    /\ conns[1].closed
    /\ \E r \in shuts : r.fac = 1 /\ r.perr # NoErr

\* C16: whatever the host calls on an endpoint, Shutdown more than once
\* included, chcn is never closed a second time.
C16_SingleClose ==
    panicked.why # "close of closed channel"

\* C17: no method of the endpoint returns a response before Serve was
\* called: while it was not, no stream of the endpoint's pipeConn has been
\* accepted and no request sent on it has been answered, so a call made in
\* that state stays blocked; a call that returned had its stream accepted
\* by the server Serve started.
C17_NoResponseBeforeServe ==
    /\ \A r \in frets :
        /\ plug[r.fac].serve # "no"
        /\ <<r.fac, R(r.pipe)>> \in srvConns
    /\ \A f \in 1..Len(facades) :
        plug[f].serve = "no" =>
            /\ \A r \in frets : r.fac # f
            /\ \A a \in accepts : a.on # facades[f].conn
            /\ \A d \in dials :
                d.on = facades[f].conn =>
                    /\ R(d.pipe) \in conns[d.on].pend
                    /\ \A r \in responses : r.pipe # d.pipe

\* ListVolumes was called on an endpoint that is initialised and not yet
\* served: its stream waits in the pipeConn and the call has not returned
C17_Witness ==
    /\ plug[1].init = 1
    /\ plug[1].serve = "no"
    /\ \E t \in Threads :
        /\ host[t].pc = "rpc"
        /\ host[t].method = "ListVolumes"
        /\ R(host[t].pipe) \in conns[1].pend

\* C15: Dial returns in every state of a running process, whether or not a
\* goroutine is in Accept: the caller gets the w end and a nil error, and
\* the r end is with the goroutine Dial started until an Accept takes it.
C15_DialNeverWaits ==
    /\ \A t \in Threads :
        (panicked = NoPanic /\ npipes < MaxDials) => ENABLED BridgeDial(t)
    /\ \A d \in dials :
        /\ d.conn = W(d.pipe)
        /\ d.err = NoErr
        /\ \/ R(d.pipe) \in conns[d.on].pend
           \/ \E a \in accepts : a.on = d.on /\ a.conn = R(d.pipe)

\* two Dials returned on a pipeConn on which Accept was never called
C15_Witness ==
    /\ nacc = 0
    /\ Cardinality(dials) = 2
    /\ conns[1].pend = {R(1), R(2)}

\* C20: no goroutine of a Dial sends on chcn after it was closed: the
\* process is never ended by a send on the closed channel.
C20_NoSendOnClosed ==
    panicked.why # "send on closed channel"

\* C18: whatever listener the host passes to Serve, the plug-in is given
\* the endpoint's own pipeConn, which no other endpoint has; and every
\* stream the plug-in's server accepts is the peer of the stream a Dial on
\* that pipeConn returned to a method of the same endpoint.
C18_ServesOwnBridge ==
    /\ \A f \in 1..Len(facades) :
        /\ plug[f].serve # "no" => plug[f].li = facades[f].conn
        /\ \A g \in 1..Len(facades) : f # g => facades[f].conn # facades[g].conn
    /\ \A c \in srvConns :
        /\ \E d \in dials : d.on = facades[c[1]].conn /\ Peer(d.conn) = c[2]
        /\ \/ \E t \in Threads : host[t].fac = c[1] /\ host[t].pipe = c[2].pipe
           \/ \E r \in frets : r.fac = c[1] /\ r.pipe = c[2].pipe

\* both endpoints are served and the server of each has accepted a stream
\* and answered a call made on its endpoint
C18_Witness ==
    /\ plug[1].serve = "yes"
    /\ plug[2].serve = "yes"
    /\ \E c1, c2 \in srvConns : c1[1] = 1 /\ c2[1] = 2
    /\ \E r1, r2 \in frets : r1.fac = 1 /\ r2.fac = 2

\* the schemes the specification lists
AcceptedSchemes ==
    {<<"t", "c", "p">>, <<"t", "c", "p", "4">>, <<"t", "c", "p", "6">>,
     <<"u", "d", "p">>, <<"u", "d", "p", "4">>, <<"u", "d", "p", "6">>,
     <<"i", "p">>, <<"i", "p", "4">>, <<"i", "p", "6">>,
     <<"u", "n", "i", "x">>, <<"u", "n", "i", "x", "g", "r", "a", "m">>,
     <<"u", "n", "i", "x", "p", "a", "c", "k", "e", "t">>}
LowerLetters == {"t", "c", "p", "u", "d", "i", "n", "x", "g", "r", "a", "m", "k", "e"}
Lower(c) ==
    IF \E l \in LowerLetters : Upper(l) = c
    THEN CHOOSE l \in LowerLetters : Upper(l) = c
    ELSE c
LowerStr(w) == [i \in DOMAIN w |-> Lower(w[i])]
\* the lengths n with which s is s[1..n], then ://, then a rest, the scheme
\* s[1..n] being an accepted one ignoring case
SchemeEnds(s) ==
    {n \in 1..Len(s) :
        /\ LowerStr(SubSeq(s, 1, n)) \in AcceptedSchemes
        /\ Len(s) >= n + 3
        /\ SubSeq(s, n + 1, n + 3) = <<":", "/", "/">>}
RestAfter(s, n) == SubSeq(s, n + 4, Len(s))
\* those of them with a rest that is not empty and holds no line feed
AddressEnds(s) ==
    {n \in SchemeEnds(s) :
        /\ RestAfter(s, n) # <<>>
        /\ \A i \in DOMAIN RestAfter(s, n) : RestAfter(s, n)[i] # "\n"}
Failed(r) == r.err # NoErr /\ r.proto = <<>> /\ r.addr = <<>>

\* C13, as stated: a string scheme://rest with an accepted scheme parses
\* to the scheme as written and the rest, whatever the rest is; every other
\* string fails with the error and the empty scheme and address.
C13_AsStated ==
    \A r \in parsed :
        IF SchemeEnds(protoAddr) # {}
        THEN \E n \in SchemeEnds(protoAddr) :
                /\ r.err = NoErr
                /\ r.proto = SubSeq(protoAddr, 1, n)
                /\ r.addr = RestAfter(protoAddr, n)
        ELSE Failed(r)

\* C13, amended: a string scheme://rest with an accepted scheme and a rest
\* that is not empty and holds no line feed parses to the scheme as written
\* and the rest; every other string fails with the error and the empty
\* scheme and address.  Both parsers do so.
C13_ParsesSchemeAndRest ==
    \A r \in parsed :
        IF AddressEnds(protoAddr) # {}
        THEN \E n \in AddressEnds(protoAddr) :
                /\ r.err = NoErr
                /\ r.proto = SubSeq(protoAddr, 1, n)
                /\ r.addr = RestAfter(protoAddr, n)
        ELSE Failed(r)

\* both parsers returned ("Unixgram", "/a") for "Unixgram:///a"
C13_Witness ==
    /\ protoAddr = <<"U", "n", "i", "x", "g", "r", "a", "m", ":", "/", "/", "/", "a">>
    /\ {r.fn : r \in parsed} = {"ParseProtoAddr", "parseProtoAddr"}
    /\ \A r \in parsed :
        /\ r.err = NoErr
        /\ r.proto = <<"U", "n", "i", "x", "g", "r", "a", "m">>
        /\ r.addr = <<"/", "a">>

\* main is past its check of the address
PastParse == mpc \notin {"start", "parse"}
\* the process ended with status 1 after one line on os.Stderr that names
\* the address, and attempted no listen, Init or Serve
ExitedOnAddress(a) ==
    /\ mpc = "exited"
    /\ exitCode = <<1>>
    /\ stderr = <<[text |-> "error: invalid endpoint", arg |-> a]>>
    /\ steps = <<>>

\* C19, as stated: with CSI_ENDPOINT absent or malformed, main attempts no
\* listen, Init or Serve and exits with a non-zero status and a diagnostic.
C19_AsStated ==
    (csiEndpoint = <<>> \/ AddressEnds(csiEndpoint) = {}) =>
        /\ steps = <<>>
        /\ PastParse => (exitCode # <<>> /\ exitCode # <<0>> /\ stderr # <<>>)

\* C19, amended: with a CSI_ENDPOINT that is set and malformed, main
\* attempts no listen, Init or Serve and exits with status 1 and one line
\* on os.Stderr; with CSI_ENDPOINT absent, main takes tcp://127.0.0.1:8080
\* and goes on to listen on it.
C19_MalformedExits ==
    /\ (csiEndpoint # <<>> /\ AddressEnds(csiEndpoint) = {}) =>
        /\ steps = <<>>
        /\ PastParse => ExitedOnAddress(csiEndpoint)
    /\ csiEndpoint = <<>> =>
        /\ mpc # "start" => protoAddr = DefaultEndpoint
        /\ PastParse =>
            /\ listenArgs = <<SubSeq(DefaultEndpoint, 1, 3),
                              SubSeq(DefaultEndpoint, 7, Len(DefaultEndpoint))>>
            /\ ~ExitedOnAddress(DefaultEndpoint)

\* CSI_ENDPOINT was http://a and main exited on it
C19_Witness ==
    /\ csiEndpoint = <<"h", "t", "t", "p", ":", "/", "/", "a">>
    /\ ExitedOnAddress(csiEndpoint)

\* the key a returned New bound its endpoint to, <<>> when it returned none
BoundKey(r) == IF r.svc = 0 THEN <<>> ELSE facades[r.svc].name

\* C21: two calls of New with the same name, both made on the registry the
\* finished discovery left, invoke the same constructor and return alike:
\* endpoints bound to the same key, or the same error.
C21_CreateDeterministic ==
    \A r1, r2 \in NewRets :
        (r1.name = r2.name /\ r1.init = NoErr /\ r2.init = NoErr) =>
            /\ r1.ctor = r2.ctor
            /\ r1.err = r2.err
            /\ BoundKey(r1) = BoundKey(r2)

=============================================================================
